---- MODULE Spec2Model ----
(***************************************************************************)
(* The resize interaction pipeline of re-position                          *)
(* (src/observables/resize.ts): createResizeObservable and the stages of   *)
(* its sample transform chain, together with the collaborators it imports  *)
(* from ../utils and ./misc.                                               *)
(*                                                                         *)
(* Numbers.  The code computes in IEEE doubles; the model computes the     *)
(* same expressions exactly.  Every local-space length (a Position field,  *)
(* a Dimensions field, a distance) is an integer count of quarter pixels,  *)
(* Px(n) being n pixels, so that the halves and quarters produced by       *)
(* dividing by the scale, by the aspect ratio and by two stay integers.    *)
(* Pointer coordinates (clientX, clientY) are whole screen pixels.         *)
(* Div is exact division: a quotient that is not an integer yields the     *)
(* string "inexact", on which no arithmetic is defined, so a run in which  *)
(* the fixed point loses a fraction stops with an error instead of         *)
(* silently truncating.                                                    *)
(***************************************************************************)
EXTENDS Integers, Sequences, FiniteSets, TLC

Px(n) == n * 4

Abs(n) == IF n < 0 THEN -n ELSE n

Max(a, b) == IF a >= b THEN a ELSE b

Div(a, b) == IF a % b = 0 THEN a \div b ELSE "inexact"

\* Math.round(a / b) for b > 0: the nearest integer, halves towards +infinity.
RoundDiv(a, b) == (2 * a + b) \div (2 * b)

RECURSIVE GCD(_, _)
GCD(a, b) == IF b = 0 THEN a ELSE GCD(b, a % b)

\* cos and sin of a right angle given in degrees.
Cos(deg) == CASE deg % 360 = 0 -> 1
              [] deg % 360 = 90 -> 0
              [] deg % 360 = 180 -> -1
              [] deg % 360 = 270 -> 0

Sin(deg) == CASE deg % 360 = 0 -> 0
              [] deg % 360 = 90 -> 1
              [] deg % 360 = 180 -> 0
              [] deg % 360 = 270 -> -1

(***************************************************************************)
(* Geometry engine (../utils).                                             *)
(*                                                                         *)
(* An angle is held as the primitive lattice vector (ux, uy) of its ray:   *)
(* its cosine is ux / |u| and its sine uy / |u|.  A distance measured      *)
(* along that ray is held as a multiple of |u|, so distance * cos(angle)   *)
(* is distance * ux exactly.  atan2(0, 0) is the angle 0, the ray (1, 0).  *)
(***************************************************************************)
angleBetweenPoints(x0, y0, x1, y1) ==
    LET dx == x1 - x0
        dy == y1 - y0
        g == GCD(Abs(dx), Abs(dy))
    IN IF g = 0 THEN [ux |-> 1, uy |-> 0]
                ELSE [ux |-> dx \div g, uy |-> dy \div g]

\* In quarter pixels per unit of |u|.
distanceBetweenPoints(x0, y0, x1, y1) == Px(GCD(Abs(x1 - x0), Abs(y1 - y0)))

\* snapObjectValues(step)(obj); step 0 stands for undefined.
snapObjectValues(step, obj) ==
    IF step = 0 THEN obj
    ELSE [left |-> RoundDiv(obj.left, Px(step)) * Px(step),
          top |-> RoundDiv(obj.top, Px(step)) * Px(step),
          width |-> RoundDiv(obj.width, Px(step)) * Px(step),
          height |-> RoundDiv(obj.height, Px(step)) * Px(step)]

\* round(n) of the rational num / den, in hundredths.
round(num, den) == RoundDiv(100 * num, den)

\* The screen-space point of the offset (ox, oy) from the centre (cx, cy)
\* under the matrix [a, b, c, d], the element's transform origin being its
\* centre.
transformedPoint(m, cx, cy, ox, oy) ==
    [x |-> cx + m.a * ox + m.c * oy, y |-> cy + m.b * ox + m.d * oy]

corners(position, m) ==
    LET hw == Div(position.width, 2)
        hh == Div(position.height, 2)
        cx == position.left + hw
        cy == position.top + hh
    IN [nw |-> transformedPoint(m, cx, cy, -hw, -hh),
        ne |-> transformedPoint(m, cx, cy, hw, -hh),
        se |-> transformedPoint(m, cx, cy, hw, hh),
        sw |-> transformedPoint(m, cx, cy, -hw, hh)]

(***************************************************************************)
(* The stages of the sample transform chain (resize.ts).  A curried        *)
(* f(a)(b) of the code is f(a, b) here.                                    *)
(***************************************************************************)
MinimumPx == 20

angleAndDistanceFromPointToMouseEvent(originX, originY, scale, e) ==
    [angle |-> angleBetweenPoints(originX, originY, e.clientX, e.clientY),
     distance |->
         Div(distanceBetweenPoints(originX, originY, e.clientX, e.clientY),
             scale)]

\* A slip in the unwinding: the old rotation is added to the angle, not
\* taken from it.
horizontalAndVerticalChangeAddingRotation(oldRotation, angleAndDistanceChange) ==
    LET u == angleAndDistanceChange.angle
        d == angleAndDistanceChange.distance
    IN [width |-> d * (u.ux * Cos(oldRotation) - u.uy * Sin(oldRotation)),
        height |-> d * (u.uy * Cos(oldRotation) + u.ux * Sin(oldRotation))]

\* cos(a - r) = cos a cos r + sin a sin r, sin(a - r) = sin a cos r - cos a sin r
horizontalAndVerticalChange(oldRotation, angleAndDistanceChange) ==
    LET u == angleAndDistanceChange.angle
        d == angleAndDistanceChange.distance
    IN [width |-> d * (u.ux * Cos(oldRotation) + u.uy * Sin(oldRotation)),
        height |-> d * (u.uy * Cos(oldRotation) - u.ux * Sin(oldRotation))]

\* A slip in the edge stage: with left and right both set the width follows
\* the right edge.
applyToOriginalDimensionsRightFirst(oldPosition, top, right, bottom, left, change) ==
    [left |-> IF left THEN oldPosition.left + change.width
                      ELSE oldPosition.left,
     top |-> IF top THEN oldPosition.top + change.height ELSE oldPosition.top,
     width |-> IF right THEN oldPosition.width + change.width
               ELSE IF left THEN oldPosition.width - change.width
               ELSE oldPosition.width,
     height |-> IF top THEN oldPosition.height - change.height
                ELSE IF bottom THEN oldPosition.height + change.height
                ELSE oldPosition.height]

\* A slip in the edge stage: the bottom edge is not applied.
applyToOriginalDimensionsWithoutBottom(oldPosition, top, right, bottom, left, change) ==
    [left |-> IF left THEN oldPosition.left + change.width
                      ELSE oldPosition.left,
     top |-> IF top THEN oldPosition.top + change.height ELSE oldPosition.top,
     width |-> IF left THEN oldPosition.width - change.width
               ELSE IF right THEN oldPosition.width + change.width
               ELSE oldPosition.width,
     height |-> IF top THEN oldPosition.height - change.height
                ELSE oldPosition.height]

applyToOriginalDimensions(oldPosition, top, right, bottom, left, change) ==
    [left |-> IF left THEN oldPosition.left + change.width
                      ELSE oldPosition.left,
     top |-> IF top THEN oldPosition.top + change.height ELSE oldPosition.top,
     width |-> IF left THEN oldPosition.width - change.width
               ELSE IF right THEN oldPosition.width + change.width
               ELSE oldPosition.width,
     height |-> IF top THEN oldPosition.height - change.height
                ELSE IF bottom THEN oldPosition.height + change.height
                ELSE oldPosition.height]

limitToTwentyPxMinimum(position) ==
    [position EXCEPT !.height = Max(Px(MinimumPx), position.height),
                     !.width = Max(Px(MinimumPx), position.width)]

(***************************************************************************)
(* lockAspectRatio(shouldLock, aspectRatio)(position).  aspectRatio is the *)
(* quotient oldPosition.width / oldPosition.height, held as the pair       *)
(* [num, den] with num, den > 0.  position.width / position.height is a    *)
(* double: with height 0 it is +Infinity for a positive width (greater     *)
(* than any ratio) and NaN for width 0 (neither greater nor less).         *)
(***************************************************************************)
RatioGreater(position, aspectRatio) ==
    IF position.height = 0 THEN position.width > 0
    ELSE position.width * aspectRatio.den > aspectRatio.num * position.height

RatioLess(position, aspectRatio) ==
    IF position.height = 0 THEN FALSE
    ELSE position.width * aspectRatio.den < aspectRatio.num * position.height

lockAspectRatio(shouldLock, aspectRatio, position) ==
    IF ~shouldLock THEN position
    ELSE IF RatioGreater(position, aspectRatio)
         THEN [position EXCEPT
                  !.height = Div(position.width * aspectRatio.den,
                                 aspectRatio.num)]
    ELSE IF RatioLess(position, aspectRatio)
         THEN [position EXCEPT
                  !.width = Div(position.height * aspectRatio.num,
                                aspectRatio.den)]
    ELSE position

\* A slip in the anchor choice: the case of bottom and left is missing.
offsetForVisualConsistencyWithoutNe(oldPosition, transformMatrix, top, right, bottom, left, newPosition) ==
    LET oldCorners == corners(oldPosition, transformMatrix)
        newCorners == corners(newPosition, transformMatrix)
        anchor == IF top /\ right THEN "sw"
                  ELSE IF top \/ left THEN "se"
                  ELSE "nw"
        changeX == newCorners[anchor].x - oldCorners[anchor].x
        changeY == newCorners[anchor].y - oldCorners[anchor].y
    IN [left |-> newPosition.left - changeX,
        top |-> newPosition.top - changeY,
        width |-> newPosition.width,
        height |-> newPosition.height]

\* A slip in the anchor choice: top or left alone anchors nw instead of se.
offsetForVisualConsistencyAnchoringNw(oldPosition, transformMatrix, top, right, bottom, left, newPosition) ==
    LET oldCorners == corners(oldPosition, transformMatrix)
        newCorners == corners(newPosition, transformMatrix)
        anchor == IF bottom /\ left THEN "ne"
                  ELSE IF top /\ right THEN "sw"
                  ELSE "nw"
        changeX == newCorners[anchor].x - oldCorners[anchor].x
        changeY == newCorners[anchor].y - oldCorners[anchor].y
    IN [left |-> newPosition.left - changeX,
        top |-> newPosition.top - changeY,
        width |-> newPosition.width,
        height |-> newPosition.height]

offsetForVisualConsistency(oldPosition, transformMatrix, top, right, bottom, left, newPosition) ==
    LET oldCorners == corners(oldPosition, transformMatrix)
        newCorners == corners(newPosition, transformMatrix)
        anchor == IF bottom /\ left THEN "ne"
                  ELSE IF top /\ right THEN "sw"
                  ELSE IF top \/ left THEN "se"
                  ELSE "nw"
        changeX == newCorners[anchor].x - oldCorners[anchor].x
        changeY == newCorners[anchor].y - oldCorners[anchor].y
    IN [left |-> newPosition.left - changeX,
        top |-> newPosition.top - changeY,
        width |-> newPosition.width,
        height |-> newPosition.height]

\* A PositionStrings field `${round(v)}px` or `${round(v)}%` is the record
\* [n |-> round(v) in hundredths, unit |-> the suffix].
convertDimensionsToPercent(shouldConvertToPercent, parent, position) ==
    IF shouldConvertToPercent
    THEN [left |-> [n |-> round(100 * position.left, Px(parent.offsetWidth)),
                    unit |-> "%"],
          top |-> [n |-> round(100 * position.top, Px(parent.offsetHeight)),
                   unit |-> "%"],
          height |->
              [n |-> round(100 * position.height, Px(parent.offsetHeight)),
               unit |-> "%"],
          width |->
              [n |-> round(100 * position.width, Px(parent.offsetWidth)),
               unit |-> "%"]]
    ELSE [left |-> [n |-> round(position.left, Px(1)), unit |-> "px"],
          top |-> [n |-> round(position.top, Px(1)), unit |-> "px"],
          height |-> [n |-> round(position.height, Px(1)), unit |-> "px"],
          width |-> [n |-> round(position.width, Px(1)), unit |-> "px"]]

(***************************************************************************)
(* The inputs.  A handle's edge flags, the snap step and the output unit   *)
(* are the options of one createResizeObservable; the element is the DOM   *)
(* state positionOfElement, rotationOfElement, transformMatrixOfElement    *)
(* and scaleOfElement read, with the offset size of its parent.            *)
(***************************************************************************)
MaxDowns == 2

MaxMoves == 2

MaxFrames == 2

ChainDowns == 1

ChainMoves == 1

ChainFrames == 1

Edges(t, r, b, l) == [top |-> t, right |-> r, bottom |-> b, left |-> l]

Handles ==
    [n |-> Edges(TRUE, FALSE, FALSE, FALSE),
     ne |-> Edges(TRUE, TRUE, FALSE, FALSE),
     e |-> Edges(FALSE, TRUE, FALSE, FALSE),
     se |-> Edges(FALSE, TRUE, TRUE, FALSE),
     s |-> Edges(FALSE, FALSE, TRUE, FALSE),
     sw |-> Edges(FALSE, FALSE, TRUE, TRUE),
     w |-> Edges(FALSE, FALSE, FALSE, TRUE),
     nw |-> Edges(TRUE, FALSE, FALSE, TRUE)]

HandleNames == {"n", "ne", "e", "se", "s", "sw", "w", "nw"}

Snaps == {0, 50}

PxPosition(l, t, w, h) ==
    [left |-> Px(l), top |-> Px(t), width |-> Px(w), height |-> Px(h)]

Identity == [a |-> 1, b |-> 0, c |-> 0, d |-> 1]

\* rotate(90deg) scale(2)
QuarterTurnDoubled == [a |-> 0, b |-> 2, c |-> -2, d |-> 0]

Parent == [offsetWidth |-> 400, offsetHeight |-> 300]

Square ==
    [position |-> PxPosition(0, 0, 100, 100), rotation |-> 0, scale |-> 1,
     matrix |-> Identity, parentElement |-> Parent]

Wide ==
    [position |-> PxPosition(100, 100, 200, 100), rotation |-> 0, scale |-> 1,
     matrix |-> Identity, parentElement |-> Parent]

Turned ==
    [position |-> PxPosition(50, 50, 100, 100), rotation |-> 90, scale |-> 2,
     matrix |-> QuarterTurnDoubled, parentElement |-> Parent]

Elements == {Square, Wide, Turned}

\* A mousemove event: the point and the shift key.
MouseMoveEvent(x, y, k) == [clientX |-> x, clientY |-> y, shiftKey |-> k]

\* rotate(rotation deg) scale(scale)
Matrix(rotation, scale) ==
    [a |-> scale * Cos(rotation), b |-> scale * Sin(rotation),
     c |-> -scale * Sin(rotation), d |-> scale * Cos(rotation)]

\* One rectangle under every right-angle rotation, unscaled and doubled.
UnwindElements ==
    {[position |-> PxPosition(100, 100, 200, 100), rotation |-> r,
      scale |-> k, matrix |-> Matrix(r, k), parentElement |-> Parent] :
        r \in {0, 90, 180, 270}, k \in {1, 2}}

\* From the mousedown point (200, 200): the displacements (10, 0), (0, 10),
\* (-10, 0), (30, -40) and (0, 0).
UnwindPoints ==
    {MouseMoveEvent(210, 200, FALSE), MouseMoveEvent(200, 210, FALSE),
     MouseMoveEvent(190, 200, FALSE), MouseMoveEvent(230, 160, FALSE),
     MouseMoveEvent(200, 200, FALSE)}

\* Where the pointer goes.  From the mousedown point (200, 200) the four
\* points are the displacements (0, 0), (50, 40), (200, 100), (-50, -100).
Points ==
    {MouseMoveEvent(200, 200, FALSE), MouseMoveEvent(250, 240, FALSE),
     MouseMoveEvent(400, 300, FALSE), MouseMoveEvent(150, 100, FALSE)}

DragPoints ==
    {MouseMoveEvent(250, 240, FALSE), MouseMoveEvent(400, 300, FALSE)}

\* The shift key goes down and up while the pointer moves.
ShiftPoints ==
    {MouseMoveEvent(250, 240, FALSE), MouseMoveEvent(250, 240, TRUE),
     MouseMoveEvent(400, 300, TRUE)}

\* mousedown events: the button (which), the point and the shift key.
MouseDownEvents ==
    {[which |-> w, clientX |-> 200, clientY |-> 200, shiftKey |-> k] :
        w \in {1, 3}, k \in BOOLEAN}

DragDownEvents ==
    {[which |-> 1, clientX |-> 200, clientY |-> 200, shiftKey |-> FALSE],
     [which |-> 1, clientX |-> 250, clientY |-> 240, shiftKey |-> TRUE],
     [which |-> 3, clientX |-> 200, clientY |-> 200, shiftKey |-> FALSE]}

Config(h, s, p) ==
    [edges |-> Handles[h], snap |-> s, shouldConvertToPercent |-> p]

Configs == {Config(h, s, p) : h \in HandleNames, s \in Snaps, p \in BOOLEAN}

DragConfigs == {Config("se", 0, FALSE), Config("nw", 50, TRUE)}

DragElements == {Wide}

(***************************************************************************)
(* The state.                                                              *)
(***************************************************************************)
VARIABLES
    cfg,        \* the options of createResizeObservable
    element,    \* the element's DOM state
    dragging,   \* whether the switchMap holds a subscribed inner session
    session,    \* the number of sessions started; the current one's id
    snapshot,   \* what the current session's closures captured at mousedown
    last,       \* distinctUntilChanged: the reference of the last value passed
    latest,     \* the frame throttle's cache: the pending sample, 0 for none
    samples,    \* every mousemove a session received, in order of arrival
    events,     \* what the subscriber saw: emissions and onComplete calls
    frame,      \* the number of animation frames the sessions saw
    ended,      \* per session: "no", "up" or "superseded"
    idleMoves,  \* the mousemoves nobody listened to: for each, the number
                \* of sessions started before it
    idleUps,    \* whether a mouseup nobody listened to came since the last
                \* primary mousedown
    dropped,    \* the mousedown the filter dropped first since the last
                \* primary one: the number of mousemoves nobody listened to
                \* that came before it, -1 for no such mousedown
    other       \* the observable createResizeObservable made for a second
                \* handle of the element, as far as its subscriptions go:
                \* whether its switchMap holds a session, how many it
                \* started, how many samples they received, the one pending
                \* in its throttle (0 for none), the ones it emitted and
                \* how often its onComplete ran

vars == <<cfg, element, dragging, session, snapshot, last, latest, samples,
          events, frame, ended, idleMoves, idleUps, dropped, other>>

NoSnapshot ==
    [oldPosition |-> PxPosition(0, 0, 0, 0), oldRotation |-> 0,
     transformMatrix |-> Identity, scale |-> 1, originX |-> 0, originY |-> 0,
     shiftKey |-> FALSE]

InitIn(configs, elements) ==
    /\ cfg \in configs
    /\ element \in elements
    /\ dragging = FALSE
    /\ session = 0
    /\ snapshot = NoSnapshot
    /\ last = 0
    /\ latest = 0
    /\ samples = <<>>
    /\ events = <<>>
    /\ frame = 0
    /\ ended = [s \in 1..MaxDowns |-> "no"]
    /\ idleMoves = <<>>
    /\ idleUps = FALSE
    /\ dropped = -1
    /\ other = [dragging |-> FALSE, session |-> 0, received |-> 0,
                pending |-> 0, emitted |-> <<>>, completed |-> 0]

(***************************************************************************)
(* The pipeline of one session (resize.ts 70-113), stage by stage, for the *)
(* mousemove e under the snapshot snap.                                    *)
(*                                                                         *)
(* limitToTwentyPxMinimum builds a new object for every sample, and        *)
(* snapObjectValues hands on that object or another new one, so the value  *)
(* that reaches distinctUntilChanged() is an object no earlier sample      *)
(* produced.  Its reference is the sample's number in order of arrival.    *)
(* distinctUntilChanged() without a comparator compares with ===, which    *)
(* on objects is identity of reference.                                    *)
(***************************************************************************)
Change(snap, e) ==
    horizontalAndVerticalChange(snap.oldRotation,
        angleAndDistanceFromPointToMouseEvent(snap.originX, snap.originY,
                                              snap.scale, e))

Applied(snap, e) ==
    applyToOriginalDimensions(snap.oldPosition, cfg.edges.top,
        cfg.edges.right, cfg.edges.bottom, cfg.edges.left, Change(snap, e))

Clamped(snap, e) == limitToTwentyPxMinimum(Applied(snap, e))

Snapped(snap, e) == snapObjectValues(cfg.snap, Clamped(snap, e))

StrictEquals(refA, refB) == refA = refB

\* distinctUntilChanged(): the first value passes, a later one passes unless
\* it === the last value passed.
distinctUntilChanged(lastRef, ref) == lastRef = 0 \/ ~StrictEquals(lastRef, ref)

AspectRatio(snap) ==
    [num |-> snap.oldPosition.width, den |-> snap.oldPosition.height]

Corrected(snap, candidate) ==
    offsetForVisualConsistency(snap.oldPosition, snap.transformMatrix,
        cfg.edges.top, cfg.edges.right, cfg.edges.bottom, cfg.edges.left,
        lockAspectRatio(snap.shiftKey, AspectRatio(snap), candidate))

Converted(position) ==
    convertDimensionsToPercent(cfg.shouldConvertToPercent,
                               element.parentElement, position)

(***************************************************************************)
(* The log.                                                                *)
(***************************************************************************)
Emit(sess, sample, flush) ==
    [kind |-> "emit", sess |-> sess, sample |-> sample, frame |-> frame,
     flush |-> flush]

Complete(sess) ==
    [kind |-> "complete", sess |-> sess, sample |-> 0, frame |-> frame,
     flush |-> FALSE]

(***************************************************************************)
(* What the document's events do to the second handle's observable.  Its   *)
(* session listens to the same documentMouseMove$ and documentMouseUp$: a  *)
(* sample it receives becomes its throttle's pending value, a frame emits  *)
(* the pending value, a mouseup flushes it, calls onComplete and ends the  *)
(* session.                                                                *)
(***************************************************************************)
OtherAfterMouseMove ==
    IF other.dragging
    THEN [other EXCEPT !.received = @ + 1, !.pending = other.received + 1]
    ELSE other

OtherAfterAnimationFrame ==
    IF other.dragging /\ other.pending # 0
    THEN [other EXCEPT !.emitted = Append(@, other.pending), !.pending = 0]
    ELSE other

OtherAfterMouseUp ==
    IF other.dragging
    THEN [other EXCEPT
             !.emitted = IF other.pending # 0 THEN Append(@, other.pending)
                                              ELSE @,
             !.pending = 0, !.dragging = FALSE, !.completed = @ + 1]
    ELSE other

(***************************************************************************)
(* mousedown on the handle (resize.ts 57-69, 115-119).  filter drops every *)
(* button but the primary one; dropped notes that it did.  switchMap       *)
(* unsubscribes the inner observable of the session before, which disposes *)
(* of its pipeline, its distinctUntilChanged state and its throttle cache, *)
(* and subscribes the new session's.                                       *)
(***************************************************************************)
\* A slip in the supersede: the throttle cache of the session before is not
\* disposed of.
MouseDownKeepingPending(e, maxDowns) ==
    /\ session < maxDowns
    /\ IF e.which # 1
       THEN /\ dropped' = IF dropped = -1 THEN Len(idleMoves) ELSE dropped
            /\ UNCHANGED <<cfg, element, dragging, session, snapshot, last,
                           latest, samples, events, frame, ended, idleMoves,
                           idleUps, other>>
       ELSE /\ session' = session + 1
            /\ dragging' = TRUE
            /\ snapshot' = [oldPosition |-> element.position,
                            oldRotation |-> element.rotation,
                            transformMatrix |-> element.matrix,
                            scale |-> element.scale,
                            originX |-> e.clientX, originY |-> e.clientY,
                            shiftKey |-> e.shiftKey]
            /\ last' = 0
            /\ ended' = IF dragging
                        THEN [ended EXCEPT ![session] = "superseded"]
                        ELSE ended
            /\ idleUps' = FALSE
            /\ dropped' = -1
            /\ UNCHANGED <<cfg, element, latest, samples, events, frame,
                           idleMoves, other>>

\* A slip in the filter: a mousedown of any button starts a session.
MouseDownOfAnyButton(e, maxDowns) ==
    /\ session < maxDowns
    /\ session' = session + 1
    /\ dragging' = TRUE
    /\ snapshot' = [oldPosition |-> element.position,
                    oldRotation |-> element.rotation,
                    transformMatrix |-> element.matrix,
                    scale |-> element.scale,
                    originX |-> e.clientX, originY |-> e.clientY,
                    shiftKey |-> e.shiftKey]
    /\ last' = 0
    /\ latest' = 0
    /\ ended' = IF dragging
                THEN [ended EXCEPT ![session] = "superseded"]
                ELSE ended
    /\ idleUps' = FALSE
    /\ dropped' = IF e.which # 1 THEN Len(idleMoves) ELSE -1
    /\ UNCHANGED <<cfg, element, samples, events, frame, idleMoves,
                   other>>

\* A slip in the supersede: the distinctUntilChanged state of the session
\* before is not disposed of.
MouseDownKeepingDistinctState(e, maxDowns) ==
    /\ session < maxDowns
    /\ IF e.which # 1
       THEN /\ dropped' = IF dropped = -1 THEN Len(idleMoves) ELSE dropped
            /\ UNCHANGED <<cfg, element, dragging, session, snapshot, last,
                           latest, samples, events, frame, ended, idleMoves,
                           idleUps, other>>
       ELSE /\ session' = session + 1
            /\ dragging' = TRUE
            /\ snapshot' = [oldPosition |-> element.position,
                            oldRotation |-> element.rotation,
                            transformMatrix |-> element.matrix,
                            scale |-> element.scale,
                            originX |-> e.clientX, originY |-> e.clientY,
                            shiftKey |-> e.shiftKey]
            /\ latest' = 0
            /\ ended' = IF dragging
                        THEN [ended EXCEPT ![session] = "superseded"]
                        ELSE ended
            /\ idleUps' = FALSE
            /\ dropped' = -1
            /\ UNCHANGED <<cfg, element, last, samples, events, frame,
                           idleMoves, other>>

MouseDown(e, maxDowns) ==
    /\ session < maxDowns
    /\ IF e.which # 1
       THEN /\ dropped' = IF dropped = -1 THEN Len(idleMoves) ELSE dropped
            /\ UNCHANGED <<cfg, element, dragging, session, snapshot, last,
                           latest, samples, events, frame, ended, idleMoves,
                           idleUps, other>>
       ELSE /\ session' = session + 1
            /\ dragging' = TRUE
            /\ snapshot' = [oldPosition |-> element.position,
                            oldRotation |-> element.rotation,
                            transformMatrix |-> element.matrix,
                            scale |-> element.scale,
                            originX |-> e.clientX, originY |-> e.clientY,
                            shiftKey |-> e.shiftKey]
            /\ last' = 0
            /\ latest' = 0
            /\ ended' = IF dragging
                        THEN [ended EXCEPT ![session] = "superseded"]
                        ELSE ended
            /\ idleUps' = FALSE
            /\ dropped' = -1
            /\ UNCHANGED <<cfg, element, samples, events, frame, idleMoves,
                           other>>

(***************************************************************************)
(* mousedown on the second handle.  Its observable has a fromEvent on its  *)
(* own handle, a filter and a switchMap of its own (resize.ts 57-61):      *)
(* the switchMap unsubscribes the session its own observable held and      *)
(* subscribes a new one.  Nothing there reaches the first handle's         *)
(* observable.                                                             *)
(***************************************************************************)
OtherMouseDown(e, maxDowns) ==
    /\ other.session < maxDowns
    /\ IF e.which # 1
       THEN UNCHANGED vars
       ELSE /\ other' = [other EXCEPT !.dragging = TRUE, !.session = @ + 1,
                                      !.pending = 0]
            /\ UNCHANGED <<cfg, element, dragging, session, snapshot, last,
                           latest, samples, events, frame, ended, idleMoves,
                           idleUps, dropped>>

(***************************************************************************)
(* mousemove on the document (resize.ts 70-113, and the source side of     *)
(* requestAnimationFramesUntil).  Without a subscribed session nobody      *)
(* listens.  With one, the sample runs through the chain; what passes      *)
(* distinctUntilChanged becomes the throttle's pending value, replacing    *)
(* the one pending before.                                                 *)
(***************************************************************************)
\* A slip in the hand-over to the throttle: the value passed before is
\* handed on, not the new one.
MouseMoveHandingOnPrevious(e, maxMoves) ==
    /\ Len(samples) + Len(idleMoves) < maxMoves
    /\ IF ~dragging
       THEN /\ idleMoves' = Append(idleMoves, session)
            /\ UNCHANGED <<cfg, element, dragging, session, snapshot, last,
                           latest, samples, events, frame, ended, idleUps,
                           dropped>>
            /\ other' = OtherAfterMouseMove
       ELSE LET ref == Len(samples) + 1
                candidate == Snapped(snapshot, e)
                passed == distinctUntilChanged(last, ref)
                position == IF passed THEN Corrected(snapshot, candidate)
                                      ELSE candidate
            IN /\ samples' = Append(samples,
                      [sess |-> session, frame |-> frame,
                       clientX |-> e.clientX, clientY |-> e.clientY,
                       shiftKey |-> e.shiftKey,
                       ref |-> ref, passed |-> passed,
                       change |-> Change(snapshot, e),
                       applied |-> Applied(snapshot, e),
                       candidate |-> candidate, position |-> position,
                       strings |-> Converted(position)])
               /\ last' = IF passed THEN ref ELSE last
               /\ latest' = IF ~passed THEN latest
                             ELSE IF last # 0 THEN last ELSE ref
               /\ UNCHANGED <<cfg, element, dragging, session, snapshot,
                              events, frame, ended, idleMoves, idleUps,
                              dropped>>
               /\ other' = OtherAfterMouseMove

\* A slip in the snapshot: the position of the element is read at every
\* sample, not once at the mousedown.
MouseMoveReadingElement(e, maxMoves) ==
    /\ Len(samples) + Len(idleMoves) < maxMoves
    /\ IF ~dragging
       THEN /\ idleMoves' = Append(idleMoves, session)
            /\ UNCHANGED <<cfg, element, dragging, session, snapshot, last,
                           latest, samples, events, frame, ended, idleUps,
                           dropped>>
            /\ other' = OtherAfterMouseMove
       ELSE LET ref == Len(samples) + 1
                live == [snapshot EXCEPT !.oldPosition = element.position]
                candidate == Snapped(live, e)
                passed == distinctUntilChanged(last, ref)
                position == IF passed THEN Corrected(live, candidate)
                                      ELSE candidate
            IN /\ samples' = Append(samples,
                      [sess |-> session, frame |-> frame,
                       clientX |-> e.clientX, clientY |-> e.clientY,
                       shiftKey |-> e.shiftKey,
                       ref |-> ref, passed |-> passed,
                       change |-> Change(live, e),
                       applied |-> Applied(live, e),
                       candidate |-> candidate, position |-> position,
                       strings |-> Converted(position)])
               /\ last' = IF passed THEN ref ELSE last
               /\ latest' = IF passed THEN ref ELSE latest
               /\ UNCHANGED <<cfg, element, dragging, session, snapshot,
                              events, frame, ended, idleMoves, idleUps,
                              dropped>>
               /\ other' = OtherAfterMouseMove

MouseMove(e, maxMoves) ==
    /\ Len(samples) + Len(idleMoves) < maxMoves
    /\ IF ~dragging
       THEN /\ idleMoves' = Append(idleMoves, session)
            /\ UNCHANGED <<cfg, element, dragging, session, snapshot, last,
                           latest, samples, events, frame, ended, idleUps,
                           dropped>>
            /\ other' = OtherAfterMouseMove
       ELSE LET ref == Len(samples) + 1
                candidate == Snapped(snapshot, e)
                passed == distinctUntilChanged(last, ref)
                position == IF passed THEN Corrected(snapshot, candidate)
                                      ELSE candidate
            IN /\ samples' = Append(samples,
                      [sess |-> session, frame |-> frame,
                       clientX |-> e.clientX, clientY |-> e.clientY,
                       shiftKey |-> e.shiftKey,
                       ref |-> ref, passed |-> passed,
                       change |-> Change(snapshot, e),
                       applied |-> Applied(snapshot, e),
                       candidate |-> candidate, position |-> position,
                       strings |-> Converted(position)])
               /\ last' = IF passed THEN ref ELSE last
               /\ latest' = IF passed THEN ref ELSE latest
               /\ UNCHANGED <<cfg, element, dragging, session, snapshot,
                              events, frame, ended, idleMoves, idleUps,
                              dropped>>
               /\ other' = OtherAfterMouseMove

(***************************************************************************)
(* An animation frame (requestAnimationFramesUntil).  Only a subscribed    *)
(* session has a frame callback; it emits the pending value, if there is   *)
(* one, and clears it.  frame counts the frames the sessions saw.          *)
(***************************************************************************)
\* A slip in the throttle: the frame callback does not clear the cache.
AnimationFrameKeepingPending(maxFrames) ==
    IF ~dragging /\ ~other.dragging
    THEN UNCHANGED vars
    ELSE /\ frame < maxFrames
         /\ frame' = frame + 1
         /\ IF dragging /\ latest # 0
            THEN events' = Append(events, Emit(session, latest, FALSE))
            ELSE UNCHANGED events
         /\ UNCHANGED <<cfg, element, dragging, session, snapshot, last,
                        latest, samples, ended, idleMoves, idleUps, dropped>>
         /\ other' = OtherAfterAnimationFrame

AnimationFrame(maxFrames) ==
    IF ~dragging /\ ~other.dragging
    THEN UNCHANGED vars
    ELSE /\ frame < maxFrames
         /\ frame' = frame + 1
         /\ IF dragging /\ latest # 0
            THEN /\ events' = Append(events, Emit(session, latest, FALSE))
                 /\ latest' = 0
            ELSE UNCHANGED <<events, latest>>
         /\ UNCHANGED <<cfg, element, dragging, session, snapshot, last,
                        samples, ended, idleMoves, idleUps, dropped>>
         /\ other' = OtherAfterAnimationFrame

(***************************************************************************)
(* mouseup on the document (requestAnimationFramesUntil, its completeWhen$ *)
(* and onComplete).  The session flushes the pending value, if there is    *)
(* one, calls onComplete and completes, which ends every subscription of   *)
(* its pipeline.                                                           *)
(***************************************************************************)
\* A slip in the termination: the pending value is dropped, not flushed.
MouseUpWithoutFlush ==
    IF dragging
    THEN /\ events' = Append(events, Complete(session))
         /\ latest' = 0
         /\ last' = 0
         /\ dragging' = FALSE
         /\ ended' = [ended EXCEPT ![session] = "up"]
         /\ UNCHANGED <<cfg, element, session, snapshot, samples, frame,
                        idleMoves, idleUps, dropped>>
         /\ other' = OtherAfterMouseUp
    ELSE IF other.dragging
    THEN /\ other' = OtherAfterMouseUp
         /\ UNCHANGED <<cfg, element, dragging, session, snapshot, last,
                        latest, samples, events, frame, ended, idleMoves,
                        idleUps, dropped>>
    ELSE /\ ~idleUps
         /\ idleUps' = TRUE
         /\ UNCHANGED <<cfg, element, dragging, session, snapshot, last,
                        latest, samples, events, frame, ended, idleMoves,
                        dropped, other>>

\* A slip in the termination: onComplete runs at every mouseup, session or
\* not.
MouseUpCompletingAlways ==
    IF dragging
    THEN /\ events' = (IF latest # 0
                       THEN Append(events, Emit(session, latest, TRUE))
                       ELSE events) \o <<Complete(session)>>
         /\ latest' = 0
         /\ last' = 0
         /\ dragging' = FALSE
         /\ ended' = [ended EXCEPT ![session] = "up"]
         /\ UNCHANGED <<cfg, element, session, snapshot, samples, frame,
                        idleMoves, idleUps, dropped>>
         /\ other' = OtherAfterMouseUp
    ELSE IF other.dragging
    THEN /\ other' = OtherAfterMouseUp
         /\ UNCHANGED <<cfg, element, dragging, session, snapshot, last,
                        latest, samples, events, frame, ended, idleMoves,
                        idleUps, dropped>>
    ELSE /\ ~idleUps
         /\ idleUps' = TRUE
         /\ events' = Append(events, Complete(session))
         /\ UNCHANGED <<cfg, element, dragging, session, snapshot, last,
                        latest, samples, frame, ended, idleMoves, dropped, other>>

\* A slip in the termination: the session flushes and completes but its
\* subscriptions stay.
MouseUpStayingSubscribed ==
    IF dragging
    THEN /\ events' = (IF latest # 0
                       THEN Append(events, Emit(session, latest, TRUE))
                       ELSE events) \o <<Complete(session)>>
         /\ latest' = 0
         /\ ended' = [ended EXCEPT ![session] = "up"]
         /\ UNCHANGED <<cfg, element, dragging, last, session, snapshot,
                        samples, frame, idleMoves, idleUps, dropped>>
         /\ other' = OtherAfterMouseUp
    ELSE IF other.dragging
    THEN /\ other' = OtherAfterMouseUp
         /\ UNCHANGED <<cfg, element, dragging, session, snapshot, last,
                        latest, samples, events, frame, ended, idleMoves,
                        idleUps, dropped>>
    ELSE /\ ~idleUps
         /\ idleUps' = TRUE
         /\ UNCHANGED <<cfg, element, dragging, session, snapshot, last,
                        latest, samples, events, frame, ended, idleMoves,
                        dropped, other>>

MouseUp ==
    IF dragging
    THEN /\ events' = (IF latest # 0
                       THEN Append(events, Emit(session, latest, TRUE))
                       ELSE events) \o <<Complete(session)>>
         /\ latest' = 0
         /\ last' = 0
         /\ dragging' = FALSE
         /\ ended' = [ended EXCEPT ![session] = "up"]
         /\ UNCHANGED <<cfg, element, session, snapshot, samples, frame,
                        idleMoves, idleUps, dropped>>
         /\ other' = OtherAfterMouseUp
    ELSE IF other.dragging
    THEN /\ other' = OtherAfterMouseUp
         /\ UNCHANGED <<cfg, element, dragging, session, snapshot, last,
                        latest, samples, events, frame, ended, idleMoves,
                        idleUps, dropped>>
    ELSE /\ ~idleUps
         /\ idleUps' = TRUE
         /\ UNCHANGED <<cfg, element, dragging, session, snapshot, last,
                        latest, samples, events, frame, ended, idleMoves,
                        dropped, other>>

(***************************************************************************)
(* Spec follows whole drags: a few configurations, several sessions,       *)
(* samples and frames.  ChainSpec follows one sample of one session under  *)
(* every configuration, every element and every displacement.              *)
(***************************************************************************)
Init == InitIn(DragConfigs, DragElements)

Next ==
    \/ \E e \in DragDownEvents : MouseDown(e, MaxDowns)
    \/ \E e \in DragPoints : MouseMove(e, MaxMoves)
    \/ AnimationFrame(MaxFrames)
    \/ MouseUp

Spec == Init /\ [][Next]_vars

ChainInit == InitIn(Configs, Elements)

ChainNext ==
    \/ \E e \in MouseDownEvents : MouseDown(e, ChainDowns)
    \/ \E e \in Points : MouseMove(e, ChainMoves)
    \/ AnimationFrame(ChainFrames)
    \/ MouseUp

ChainSpec == ChainInit /\ [][ChainNext]_vars

\* UnwindSpec follows one sample of the se handle on a rectangle under every
\* right-angle rotation and two scales.
UnwindInit == InitIn({Config("se", 0, FALSE)}, UnwindElements)

UnwindNext ==
    \/ \E e \in MouseDownEvents : MouseDown(e, ChainDowns)
    \/ \E e \in UnwindPoints : MouseMove(e, ChainMoves)
    \/ AnimationFrame(ChainFrames)
    \/ MouseUp

UnwindSpec == UnwindInit /\ [][UnwindNext]_vars

\* EdgeSpec follows one sample under every combination of the four edge
\* flags, the eight handles' and the eight others, on a rectangle under
\* every right-angle rotation and two scales.
AllEdges == {Edges(t, r, b, l) : t, r, b, l \in BOOLEAN}

EdgeConfigs ==
    {[edges |-> f, snap |-> 0, shouldConvertToPercent |-> FALSE] :
        f \in AllEdges}

EdgeInit == InitIn(EdgeConfigs, UnwindElements)

EdgeNext ==
    \/ \E e \in MouseDownEvents : MouseDown(e, ChainDowns)
    \/ \E e \in DragPoints : MouseMove(e, ChainMoves)
    \/ AnimationFrame(ChainFrames)
    \/ MouseUp

EdgeSpec == EdgeInit /\ [][EdgeNext]_vars

\* GridSpec follows one sample of every handle with the snap step 50 on an
\* unrotated, unscaled element that does not lie on the grid of the step.
OffGrid ==
    [position |-> PxPosition(110, 70, 200, 100), rotation |-> 0, scale |-> 1,
     matrix |-> Identity, parentElement |-> Parent]

GridInit == InitIn({Config(h, 50, FALSE) : h \in HandleNames}, {OffGrid})

GridNext ==
    \/ \E e \in MouseDownEvents : MouseDown(e, ChainDowns)
    \/ \E e \in DragPoints : MouseMove(e, ChainMoves)
    \/ AnimationFrame(ChainFrames)
    \/ MouseUp

GridSpec == GridInit /\ [][GridNext]_vars

\* PairSpec follows the se handle and a second handle of the same element.
PairInit == InitIn({Config("se", 0, FALSE)}, DragElements)

PairNext ==
    \/ \E e \in MouseDownEvents : MouseDown(e, ChainDowns)
    \/ \E e \in MouseDownEvents : OtherMouseDown(e, ChainDowns)
    \/ \E e \in DragPoints : MouseMove(e, ChainMoves)
    \/ AnimationFrame(ChainFrames)
    \/ MouseUp

PairSpec == PairInit /\ [][PairNext]_vars

(***************************************************************************)
(* What the claims speak of.                                               *)
(***************************************************************************)
Emissions == {i \in DOMAIN events : events[i].kind = "emit"}

Completions(s) ==
    {i \in DOMAIN events : events[i].kind = "complete" /\ events[i].sess = s}

EmissionsOf(s) == {i \in Emissions : events[i].sess = s}

\* The local-space position an emission carries, before unit conversion.
EmittedPosition(i) == samples[events[i].sample].position

SamplesOf(s) == {k \in DOMAIN samples : samples[k].sess = s}

PxString(v) == [n |-> 100 * v, unit |-> "px"]

\* C1: every position a session emits, in local units before unit
\* conversion, is at least 20 wide and at least 20 high, whatever the handle,
\* the snap step and the aspect lock.
MinimumSizeInvariant ==
    \A i \in Emissions :
        /\ EmittedPosition(i).width >= Px(MinimumPx)
        /\ EmittedPosition(i).height >= Px(MinimumPx)

IsNwSessionOfWide ==
    /\ cfg.edges = Handles.nw
    /\ snapshot.oldPosition = PxPosition(100, 100, 200, 100)
    /\ snapshot.oldRotation = 0
    /\ snapshot.transformMatrix = Identity

\* C8: in a session of the nw handle that starts at {left: 100, top: 100,
\* width: 200, height: 100} with no rotation and the identity matrix, every
\* emitted position has left + width = 300 and top + height = 200.
AnchorInvarianceNw ==
    IsNwSessionOfWide =>
        \A i \in Emissions :
            /\ EmittedPosition(i).left + EmittedPosition(i).width = Px(300)
            /\ EmittedPosition(i).top + EmittedPosition(i).height = Px(200)

\* The nw session has emitted a position whose width the minimum-size floor
\* set: the se corner stands although left was moved past it.
AnchorInvarianceNwWitness ==
    /\ IsNwSessionOfWide
    /\ \E i \in Emissions :
          /\ cfg.snap = 0
          /\ samples[events[i].sample].clientX = 400
          /\ EmittedPosition(i).width = Px(MinimumPx)
          /\ EmittedPosition(i).left = Px(280)

HasRatio(position, aspectRatio) ==
    /\ position.height # 0
    /\ position.width * aspectRatio.den = position.height * aspectRatio.num

\* C9: with the modifier held at mousedown, every emitted position has
\* width / height equal to oldPosition.width / oldPosition.height; a
\* candidate above the ratio keeps its width, one below keeps its height,
\* one at the ratio keeps both.
AspectLockCorrectness ==
    snapshot.shiftKey =>
        \A i \in Emissions :
            LET candidate == samples[events[i].sample].candidate
                position == EmittedPosition(i)
                ratio == AspectRatio(snapshot)
            IN /\ HasRatio(position, ratio)
               /\ RatioGreater(candidate, ratio) =>
                      position.width = candidate.width
               /\ RatioLess(candidate, ratio) =>
                      position.height = candidate.height
               /\ HasRatio(candidate, ratio) =>
                      /\ position.width = candidate.width
                      /\ position.height = candidate.height

EndToEndScenario ==
    /\ cfg = Config("se", 0, FALSE)
    /\ element = Square
    /\ session = 1
    /\ snapshot.originX = 200 /\ snapshot.originY = 200
    /\ ~snapshot.shiftKey
    /\ Len(samples) = 1
    /\ samples[1].clientX = 250 /\ samples[1].clientY = 240
    /\ ended[1] = "up"

\* C10: mousedown on the se handle at (200, 200) of the unrotated, unscaled
\* element at {0, 0, 100, 100}, one mousemove to (250, 240), mouseup, snap
\* unset, pixel output: the last emission is {left: "0px", top: "0px",
\* width: "150px", height: "140px"} and onComplete ran once.
EndToEnd ==
    EndToEndScenario =>
        /\ EmissionsOf(1) # {}
        /\ LET final == CHOOSE i \in EmissionsOf(1) :
                            \A j \in EmissionsOf(1) : j <= i
           IN samples[events[final].sample].strings =
                  [left |-> PxString(0), top |-> PxString(0),
                   width |-> PxString(150), height |-> PxString(140)]
        /\ Cardinality(Completions(1)) = 1

EndToEndWitness ==
    /\ EndToEndScenario
    /\ idleMoves = <<>>
    /\ events[Len(events)].kind = "complete"

Last(S) == CHOOSE i \in S : \A j \in S : j <= i

PassedSamplesOf(s) == {k \in SamplesOf(s) : samples[k].passed}

\* C2: a primary-button mousedown during a session emits nothing itself, and
\* from then on every emission belongs to the session that mousedown
\* started and carries the transform, under the snapshot and origin captured
\* then, of a sample that session received: the session before emits no more,
\* not even the sample it held pending.
SessionSupersede ==
    [][/\ (dragging /\ session' # session) => Emissions' = Emissions
       /\ \A i \in (Len(events) + 1)..Len(events') :
             events'[i].kind = "emit" =>
                 LET k == events'[i].sample
                 IN /\ events'[i].sess = session'
                    /\ samples'[k].sess = session'
                    /\ samples'[k].position =
                           Corrected(snapshot', Snapped(snapshot', samples'[k]))]_vars

\* The first session was superseded while it held a pending sample, which
\* was never emitted, and the second session has emitted.
SessionSupersedeWitness ==
    /\ ended[1] = "superseded"
    /\ PassedSamplesOf(1) # {}
    /\ \A i \in Emissions : events[i].sample # Last(PassedSamplesOf(1))
    /\ EmissionsOf(2) # {}
    /\ snapshot.originX # 200

\* C3: a session ended by mouseup whose samples passed deduplication has
\* emitted, its last emission is the last such sample, and that emission
\* precedes its completion.
FinalFlush ==
    \A s \in DOMAIN ended :
        (ended[s] = "up" /\ PassedSamplesOf(s) # {}) =>
            /\ EmissionsOf(s) # {}
            /\ events[Last(EmissionsOf(s))].sample = Last(PassedSamplesOf(s))
            /\ \A c \in Completions(s) : Last(EmissionsOf(s)) < c

\* A session emitted one sample at a frame and flushed a later one at
\* mouseup.
FinalFlushWitness ==
    \E s \in DOMAIN ended :
        /\ ended[s] = "up"
        /\ \E i, j \in EmissionsOf(s) :
              i < j /\ ~events[i].flush /\ events[j].flush

\* C4: onComplete ran exactly once for every session ended by mouseup, after
\* all of that session's emissions, and not at all for a session that has
\* not ended; a mouseup without a session runs nothing.
CompletionExactlyOnce ==
    \A s \in DOMAIN ended :
        /\ ended[s] = "up" =>
              /\ Cardinality(Completions(s)) = 1
              /\ \A c \in Completions(s) : \A i \in EmissionsOf(s) : i < c
        /\ ended[s] = "no" => Completions(s) = {}
        /\ \A i \in DOMAIN events :
              events[i].kind = "complete" => events[i].sess \in 1..session

\* The first session emitted and ended by mouseup, and another mouseup
\* followed it.
CompletionExactlyOnceWitness ==
    /\ session = 1
    /\ ended[1] = "up"
    /\ EmissionsOf(1) # {}
    /\ idleUps

\* C5: a session ended by mouseup emits nothing more, and no step taken
\* while no session is subscribed emits.
NoEmissionAfterTermination ==
    [][/\ \A s \in DOMAIN ended :
             ended[s] = "up" => EmissionsOf(s)' = EmissionsOf(s)
       /\ ~dragging => Emissions' = Emissions]_vars

\* The first session emitted and ended by mouseup, and a mousemove
\* followed before any other mousedown.
NoEmissionAfterTerminationWitness ==
    /\ ~dragging
    /\ ended[1] = "up"
    /\ EmissionsOf(1) # {}
    /\ \E m \in DOMAIN idleMoves : idleMoves[m] = 1

\* C6: no two emissions of a session carry samples of the same frame's
\* window, and an emission carries the most recent sample of its window.
FrameThrottle ==
    \A i \in Emissions :
        LET k == events[i].sample
            s == events[i].sess
        IN /\ \A j \in EmissionsOf(s) \ {i} :
                  samples[events[j].sample].frame # samples[k].frame
           /\ \A m \in PassedSamplesOf(s) :
                  samples[m].frame = samples[k].frame => m <= k

\* Two samples arrived within one frame's window and the frame callback
\* emitted the second.
FrameThrottleWitness ==
    \E i \in Emissions :
        /\ ~events[i].flush
        /\ \E m \in PassedSamplesOf(events[i].sess) :
              /\ m < events[i].sample
              /\ samples[m].frame = samples[events[i].sample].frame
              /\ samples[m].position # samples[events[i].sample].position

\* C7: a sample whose clamped and snapped position equals, field by field,
\* that of the sample before it in the same session is never emitted.
Deduplication ==
    \A k \in DOMAIN samples :
        (/\ k > 1
         /\ samples[k - 1].sess = samples[k].sess
         /\ samples[k - 1].candidate = samples[k].candidate) =>
            \A i \in Emissions : events[i].sample # k

\* C11: a mousedown of a button other than the primary one starts no
\* session.  The step that drops it changes nothing of the handle's state:
\* no snapshot is taken, no session is subscribed, nothing is emitted and
\* onComplete is not called.  While no session has ever started the snapshot
\* is untaken and the subscriber has seen nothing, and as long as no session
\* is subscribed after a dropped mousedown, no step, a mousemove or any
\* other, brings a sample, an emission or an onComplete call.
PrimaryButtonGating ==
    /\ [](dropped >= 0 /\ session = 0
            => ~dragging /\ snapshot = NoSnapshot /\ samples = <<>>
               /\ events = <<>>)
    /\ [][dropped' # dropped /\ dropped' >= 0
            => UNCHANGED <<dragging, session, snapshot, last, latest,
                           samples, events, ended>>]_vars
    /\ [][dropped >= 0 /\ ~dragging /\ dropped' >= 0
            => samples' = samples /\ events' = events]_vars

\* Before any session a mousedown of another button was dropped, and after
\* it a mousemove and a mouseup came that nobody listened to.
PrimaryButtonGatingWitness ==
    /\ session = 0
    /\ dropped >= 0
    /\ Len(idleMoves) > dropped
    /\ idleUps
    /\ events = <<>>

\* The screen-space displacement of a sample from the mousedown point, in
\* quarter pixels.
Displacement(snap, sample) ==
    [width |-> Px(sample.clientX - snap.originX),
     height |-> Px(sample.clientY - snap.originY)]

\* The vector v turned by -rotation, a multiple of a right angle.
TurnedBack(v, rotation) ==
    CASE rotation = 0 -> v
      [] rotation = 90 -> [width |-> v.height, height |-> -v.width]
      [] rotation = 180 -> [width |-> -v.width, height |-> -v.height]
      [] rotation = 270 -> [width |-> -v.height, height |-> v.width]

\* C12: the local delta of a sample is its screen-space displacement from
\* the mousedown point, divided by the scale and turned by -oldRotation.
\* With oldRotation = 90 and scale 1 the displacement (10, 0) gives the
\* width 0 and a height of magnitude 10; with oldRotation = 0 and scale 1 the
\* local delta is the displacement.
RotationUnwinding ==
    \A k \in SamplesOf(session) :
        LET v == Displacement(snapshot, samples[k])
            change == samples[k].change
        IN /\ change.width * snapshot.scale =
                  TurnedBack(v, snapshot.oldRotation).width
           /\ change.height * snapshot.scale =
                  TurnedBack(v, snapshot.oldRotation).height
           /\ snapshot.oldRotation = 90 /\ snapshot.scale = 1
                  /\ v = [width |-> Px(10), height |-> 0]
              => change.width = 0 /\ Abs(change.height) = Px(10)
           /\ snapshot.oldRotation = 0 /\ snapshot.scale = 1 => change = v

\* The element turned by 90 degrees, unscaled, was dragged 10 to the right:
\* the local delta is 10 upwards.
RotationUnwindingWitness ==
    /\ snapshot.oldRotation = 90
    /\ snapshot.scale = 1
    /\ \E k \in SamplesOf(session) :
          /\ Displacement(snapshot, samples[k]) =
                 [width |-> Px(10), height |-> 0]
          /\ samples[k].change = [width |-> 0, height |-> -Px(10)]

\* C13: what the subscriber is handed is a subsequence of the transformed
\* samples, in their order of arrival: every emission carries the transform
\* of a sample its own session received and passed on, no sample is emitted
\* twice, and a later emission carries a later sample.
EmissionOrder ==
    \A i \in Emissions :
        /\ events[i].sample \in SamplesOf(events[i].sess)
        /\ samples[events[i].sample].passed
        /\ \A j \in Emissions : i < j => events[i].sample < events[j].sample

\* One session has emitted its first sample and then its second.
EmissionOrderWitness ==
    \E i, j \in Emissions :
        /\ i < j
        /\ events[i].sess = events[j].sess
        /\ events[i].sample = 1
        /\ events[j].sample = 2

\* C14: a primary-button mousedown on the second handle while the first
\* handle's session is subscribed tears that session down at once: after the
\* step the first handle holds no session and no pending value, and while
\* the second handle's session is subscribed the first handle's observable
\* emits nothing.
SupersedeAcrossHandles ==
    /\ [][other.session' # other.session => ~dragging' /\ latest' = 0]_vars
    /\ [][other.dragging => Emissions' = Emissions]_vars

\* The corner the edge flags select to stay where it is (spec 4.2.h).
AnchorOf(edges) ==
    CASE edges.bottom /\ edges.left -> "ne"
      [] ~(edges.bottom /\ edges.left) /\ edges.top /\ edges.right -> "sw"
      [] ~(edges.bottom /\ edges.left) /\ ~(edges.top /\ edges.right)
            /\ (edges.top \/ edges.left) -> "se"
      [] OTHER -> "nw"

\* C15: under every combination of the edge flags and every matrix of the
\* session, the identity, a rotation, a scale or both, the corner the flags
\* select lies, for every position the session emits, at the screen point
\* where it lies for oldPosition under the same matrix.
AnchorCorrection ==
    \A i \in EmissionsOf(session) :
        corners(EmittedPosition(i), snapshot.transformMatrix)[AnchorOf(cfg.edges)]
            = corners(snapshot.oldPosition, snapshot.transformMatrix)[AnchorOf(cfg.edges)]

\* A session of the bottom and left edges on the element turned by 90
\* degrees and doubled has emitted a position of another width, whose left
\* and top the correction moved.
AnchorCorrectionWitness ==
    /\ cfg.edges = Handles.sw
    /\ snapshot.transformMatrix = QuarterTurnDoubled
    /\ \E i \in EmissionsOf(session) :
          /\ EmittedPosition(i).width # snapshot.oldPosition.width
          /\ EmittedPosition(i).left # samples[events[i].sample].candidate.left
          /\ EmittedPosition(i).top # samples[events[i].sample].candidate.top

ActiveSessions == {s \in 1..session : ended[s] = "no"}

\* C16: the handle is idle, with no session subscribed, no value pending in
\* the throttle and no distinctUntilChanged state, or it is dragging with
\* exactly one session, the one started last.  Every earlier session has
\* ended by a mouseup or a superseding mousedown, and what the pipeline
\* holds, the pending value and the value passed last, belongs to the
\* current session: nothing of an earlier session's pipeline is left.
AllOrNothingLifecycle ==
    /\ ~dragging => ActiveSessions = {} /\ latest = 0 /\ last = 0
    /\ dragging => ActiveSessions = {session}
    /\ latest # 0 => latest \in SamplesOf(session)
    /\ last # 0 => last \in SamplesOf(session)
    /\ \A k \in DOMAIN samples : samples[k].sess \in 1..session

\* The first session received a sample and was superseded, the second
\* holds its own sample pending.
AllOrNothingLifecycleWitness ==
    /\ dragging
    /\ session = 2
    /\ ended[1] = "superseded"
    /\ SamplesOf(1) # {}
    /\ latest \in SamplesOf(2)

\* C17: for the local delta (dx, dy) the edge stage returns, from
\* oldPosition: left + dx and width - dx when left is set; the old left and
\* width + dx when right is set and left is not; the old left and width when
\* neither is set; top + dy and height - dy when top is set; the old top and
\* height + dy when bottom is set and top is not; the old top and height when
\* neither is set.  With both edges of a pair set, left and top win.
EdgeApplication ==
    \A k \in SamplesOf(session) :
        LET old == snapshot.oldPosition
            dx == samples[k].change.width
            dy == samples[k].change.height
            new == samples[k].applied
        IN /\ cfg.edges.left =>
                  new.left = old.left + dx /\ new.width = old.width - dx
           /\ ~cfg.edges.left /\ cfg.edges.right =>
                  new.left = old.left /\ new.width = old.width + dx
           /\ ~cfg.edges.left /\ ~cfg.edges.right =>
                  new.left = old.left /\ new.width = old.width
           /\ cfg.edges.top =>
                  new.top = old.top + dy /\ new.height = old.height - dy
           /\ ~cfg.edges.top /\ cfg.edges.bottom =>
                  new.top = old.top /\ new.height = old.height + dy
           /\ ~cfg.edges.top /\ ~cfg.edges.bottom =>
                  new.top = old.top /\ new.height = old.height

\* With all four edges set the pointer went right and down in the element's
\* frame: left and top grew and the width and the height shrank by the delta.
EdgeApplicationWitness ==
    /\ cfg.edges = Edges(TRUE, TRUE, TRUE, TRUE)
    /\ \E k \in SamplesOf(session) :
          /\ samples[k].change.width > 0
          /\ samples[k].change.height > 0
          /\ samples[k].applied.left > snapshot.oldPosition.left
          /\ samples[k].applied.width < snapshot.oldPosition.width
          /\ samples[k].applied.top > snapshot.oldPosition.top
          /\ samples[k].applied.height < snapshot.oldPosition.height

(***************************************************************************)
(* The subscriber renders what it is handed: the strings of the last       *)
(* emission become the style of the element (<div style={position} />),    *)
(* whose position in pixels is then what positionOfElement reads.          *)
(***************************************************************************)
\* The pixels of a length string, in quarter pixels; whole is the parent's
\* length a percentage refers to.
RenderedLength(string, whole) ==
    IF string.unit = "%" THEN RoundDiv(Px(whole) * string.n, 10000)
                         ELSE RoundDiv(4 * string.n, 100)

Rendered(strings, parent) ==
    [left |-> RenderedLength(strings.left, parent.offsetWidth),
     top |-> RenderedLength(strings.top, parent.offsetHeight),
     width |-> RenderedLength(strings.width, parent.offsetWidth),
     height |-> RenderedLength(strings.height, parent.offsetHeight)]

Apply ==
    /\ Emissions # {}
    /\ LET strings == samples[events[Last(Emissions)].sample].strings
           rendered == Rendered(strings, element.parentElement)
       IN /\ element.position # rendered
          /\ element' = [element EXCEPT !.position = rendered]
    /\ UNCHANGED <<cfg, dragging, session, snapshot, last, latest, samples,
                   events, frame, ended, idleMoves, idleUps, dropped, other>>

\* ApplySpec follows drags whose emissions are rendered while the session
\* goes on, and during which the shift key goes down.  The sessions start
\* with the shift key up: a locked session on a rendered position has a
\* ratio that takes the lengths off the quarter-pixel grid of this model.
ApplyDownEvents == {e \in MouseDownEvents : ~e.shiftKey}

ApplyInit == InitIn({Config("nw", 0, FALSE), Config("se", 50, FALSE)}, DragElements)

ApplyNext ==
    \/ \E e \in ApplyDownEvents : MouseDown(e, ChainDowns)
    \/ \E e \in ShiftPoints : MouseMove(e, MaxMoves)
    \/ AnimationFrame(MaxFrames)
    \/ MouseUp
    \/ Apply

ApplySpec == ApplyInit /\ [][ApplyNext]_vars

OnGrid(position, step) ==
    /\ position.left % Px(step) = 0
    /\ position.top % Px(step) = 0
    /\ position.width % Px(step) = 0
    /\ position.height % Px(step) = 0

\* C19: with a snap step set and the shift key up at the mousedown, every
\* position the session emits, in local units before unit conversion, has
\* left, top, width and height on multiples of the step, whatever the handle
\* and the displacement.
SnappedOutput ==
    cfg.snap # 0 /\ ~snapshot.shiftKey =>
        \A i \in EmissionsOf(session) : OnGrid(EmittedPosition(i), cfg.snap)

====
